---- MODULE Spec2Model ----
(***************************************************************************)
(* A model of src/main.py: one execution of the fuel price monitoring job  *)
(* (run_task) against the document store and the wall clock.               *)
(*                                                                         *)
(* Representation.                                                         *)
(*  - A feed row (value_str) is written as the tuple of its fields, i.e.   *)
(*    value_str.split(";"): <<"Lazio","Benzina","Self","1.80">> stands for *)
(*    "Lazio;Benzina;Self;1.80".  Every string has exactly one such        *)
(*    decomposition, and a field may be the empty string.                  *)
(*  - A python dict is a function on its keys.  A value that is a string   *)
(*    is written [str |-> s] and a value that is a dict [dict |-> d], so   *)
(*    that isinstance(v, dict) can be decided.                             *)
(*  - A float price is written in hundredths (1.80 is 180).                *)
(*  - The clock counts ticks, TicksPerDay of them per calendar day; a      *)
(*    "%Y-%m-%d" string is written [str |-> d] with d the day's ordinal.   *)
(*  - run_task is cut at its calls, because the clock moves between them   *)
(*    and each of them can end the process.                                *)
(*  - The store's documents before the run are those earlier daily runs    *)
(*    left (History).                                                      *)
(*  - What the libraries decide (whether a request or a store call         *)
(*    succeeds, whether the ARIMA fit raises and what it forecasts, the    *)
(*    order a set iterates in) is chosen freely at the call.               *)
(*  - Not modelled: the csv parsing of download, and the header split of   *)
(*    line 47 (date_str is given as the day the header names).             *)
(***************************************************************************)
EXTENDS Integers, Sequences, FiniteSets, TLC

VARIABLES
    now,                 \* the wall clock, in ticks
    ticks,               \* ticks elapsed since the process started
    fuel_data,           \* snapshot collection: document id -> document
    fuel_data_forecast,  \* forecast collection: document id -> document
    pc,                  \* position in run_task
    exitCode,            \* the process's exit status once pc = "exited"
    forecast_is_enabled, \* run_task's local of that name
    date_str,            \* the date token of the feed's header
    data,                \* download's result
    json_data,           \* data_preparation's result
    current_date,        \* run_task's local of that name
    tomorrow_date,       \* run_task's local of that name
    docs,                \* get_from_firestore's result
    prices_forecast,     \* run_task's local of that name
    order,               \* the regions in the order the set of line 102 iterates
    fatal,               \* history: the fatal condition that occurred, if any
    writes,              \* history: the documents written by this run, in order
    calls                \* history: the calls of forecast, in order

vars == <<now, ticks, fuel_data, fuel_data_forecast, pc, exitCode,
          forecast_is_enabled, date_str, data, json_data, current_date,
          tomorrow_date, docs, prices_forecast, order, fatal, writes, calls>>

----------------------------------------------------------------------------
(* Bounds of the model *)

MaxRows == 2
MaxHistory == 4
MaxTicks == 1
TicksPerDay == 2

(* Constants of the program *)

num_of_entries == 30
MinArimaSamples == 5
NoData == -1

----------------------------------------------------------------------------
(* Values *)

None == [none |-> TRUE]
Str(s) == [str |-> s]
Dict(d) == [dict |-> d]
IsStr(v) == "str" \in DOMAIN v
IsDict(v) == "dict" \in DOMAIN v
EmptyDict == [k \in {} |-> None]

Put(d, k, v) == [x \in (DOMAIN d) \cup {k} |-> IF x = k THEN v ELSE d[x]]

Range(s) == {s[i] : i \in 1..Len(s)}

(* str.lower() on the strings of the model *)
Lower(s) ==
    CASE s = "Lazio"   -> "lazio"
      [] s = "LAZIO"   -> "lazio"
      [] s = "Puglia"  -> "puglia"
      [] s = "Benzina" -> "benzina"
      [] s = "Gasolio" -> "gasolio"
      [] s = "Self"    -> "self"
      [] s = "Servito" -> "servito"
      [] s = "N.D."    -> "n.d."
      [] OTHER         -> s

IsLower(s) == Lower(s) = s

(* float(s) on the strings of the model, in hundredths; the strings outside  *)
(* the table raise ValueError                                                *)
FloatTable ==
    "1.70" :> 170 @@ "1.80" :> 180 @@ "1.81" :> 181 @@ "1.82" :> 182 @@ "1.95" :> 195

IsFloat(s) == s \in DOMAIN FloatTable
Float(s) == FloatTable[s]

(* datetime.strftime("%Y-%m-%d"): the time of day is dropped *)
strftime(t) == Str(t \div TicksPerDay)

(* timedelta(days=1) *)
OneDay == TicksPerDay

----------------------------------------------------------------------------
(* The feed: the rows download can deliver *)

Rows == {
    <<"Lazio", "Benzina", "Self", "1.80">>,
    <<"LAZIO", "benzina", "Servito", "1.95">>,
    <<"Puglia", "Gasolio", "Self", "1.70">>,
    <<"Lazio", "Benzina", "Self">>,
    <<"Lazio", "Benzina", "Self", "1.80", "x">>,
    <<"Lazio", "", "Self", "1.80">>,
    <<"date", "Benzina", "Self", "1.80">>,
    <<"Lazio", "Benzina", "Self", "N.D.">>
}

(* The second row of the feed, which names the columns; run_task drops it *)
ColumnsRow == <<"REGIONE", "TIPOLOGIA", "EROGAZIONE", "PREZZO MEDIO">>

RECURSIVE SeqsUpTo(_, _)
SeqsUpTo(S, n) ==
    IF n = 0 THEN {<<>>}
    ELSE LET shorter == SeqsUpTo(S, n - 1)
         IN shorter \cup {Append(b, r) : b \in shorter, r \in S}

Batches == SeqsUpTo(Rows, MaxRows)

----------------------------------------------------------------------------
(* data_preparation *)

(* re.match(pattern, value_str): the match is anchored at the start only.  *)
(* Each group [^;]+ takes one whole non-empty field, the first three must  *)
(* be followed by ";", and whatever follows the fourth is not looked at.   *)
ReMatch(value_str) ==
    /\ Len(value_str) >= 4
    /\ \A i \in 1..4 : value_str[i] # ""

Groups(value_str) == [i \in 1..4 |-> Lower(value_str[i])]

(* One iteration of the loop on a matching row, lines 53-62 and 67.        *)
(* json_data[regione] may be the date string when the region is "date":    *)
(* the subscript assignment on a str raises TypeError.                     *)
PrepRow(json, value_str, d) ==
    LET regione    == Groups(value_str)[1]
        carburante == Groups(value_str)[2]
        servizio   == Groups(value_str)[3]
        prezzo     == Groups(value_str)[4]
    IN  IF regione \in DOMAIN json /\ IsStr(json[regione])
        THEN [status |-> "TypeError", json_data |-> json]
        ELSE
        LET fuels0 == IF regione \in DOMAIN json THEN json[regione].dict ELSE EmptyDict
            keys0  == IF carburante \in DOMAIN fuels0 THEN DOMAIN fuels0[carburante] ELSE {}
            entry  == IF servizio \notin keys0
                      THEN [price |-> prezzo, type |-> servizio]
                      ELSE fuels0[carburante]
            json1  == Put(json, regione, Dict(Put(fuels0, carburante, entry)))
        IN  [status |-> "return", json_data |-> Put(json1, "date", Str(d))]

RECURSIVE PrepLoop(_, _, _)
PrepLoop(json, rows, d) ==
    IF rows = <<>> THEN [status |-> "return", json_data |-> json]
    ELSE IF ~ReMatch(Head(rows)) THEN [status |-> "sys.exit", json_data |-> json]
    ELSE LET r == PrepRow(json, Head(rows), d)
         IN  IF r.status # "return" THEN r
             ELSE PrepLoop(r.json_data, Tail(rows), d)

data_preparation(rows, d) == PrepLoop(EmptyDict, rows, d)

----------------------------------------------------------------------------
(* save_on_firestore and get_from_firestore.  ok is whether the store       *)
(* answers; t is the clock when the function reads it.                      *)

(* The except clause reports the error and returns *)
save_on_firestoreSwallows(json, collection, t, ok) ==
    IF ok
    THEN [status |-> "return", id |-> strftime(t).str,
          collection |-> Put(collection, strftime(t).str, json)]
    ELSE [status |-> "return", id |-> strftime(t).str, collection |-> collection]

save_on_firestore(json, collection, t, ok) ==
    IF ok
    THEN [status |-> "return", id |-> strftime(t).str,
          collection |-> Put(collection, strftime(t).str, json)]
    ELSE [status |-> "sys.exit", id |-> strftime(t).str, collection |-> collection]

(* order_by("date", DESCENDING): the documents that have the field, newest *)
(* date first, documents of equal date by descending id.                   *)
Newer(collection, a, b) ==
    \/ collection[a]["date"].str > collection[b]["date"].str
    \/ /\ collection[a]["date"].str = collection[b]["date"].str
       /\ a > b

RECURSIVE Descending(_, _)
Descending(collection, ids) ==
    IF ids = {} THEN <<>>
    ELSE LET top == CHOOSE a \in ids : \A b \in ids \ {a} : Newer(collection, a, b)
         IN  <<collection[top]>> \o Descending(collection, ids \ {top})

Limit(s, n) == SubSeq(s, 1, IF Len(s) < n THEN Len(s) ELSE n)

get_from_firestore(n, collection, ok) ==
    IF ok
    THEN [status |-> "return",
          docs |-> Limit(Descending(collection,
                       {a \in DOMAIN collection : "date" \in DOMAIN collection[a]}), n)]
    ELSE [status |-> "sys.exit", docs |-> <<>>]

----------------------------------------------------------------------------
(* data_preparation_for_forecast *)

Fuels == <<"gasolio", "gpl", "benzina", "metano">>

(* {reg for obj in docs for reg in obj.keys() if isinstance(obj[reg], dict)} *)
RegionsOf(ds) ==
    {reg \in UNION {DOMAIN ds[i] : i \in 1..Len(ds)} :
        \E i \in 1..Len(ds) : reg \in DOMAIN ds[i] /\ IsDict(ds[i][reg])}

(* regione in item and fuel in item[regione].  A key that is a dict in one *)
(* document is a dict in every document that has it: the only string value *)
(* data_preparation stores is the one under "date".                        *)
Holds(item, regione, fuel) ==
    /\ regione \in DOMAIN item
    /\ IsDict(item[regione])
    /\ fuel \in DOMAIN item[regione].dict

(* The series taken oldest first *)
RECURSIVE PricesOfReversed(_, _, _)
PricesOfReversed(ds, regione, fuel) ==
    IF ds = <<>> THEN <<>>
    ELSE PricesOfReversed(Tail(ds), regione, fuel)
         \o (IF Holds(Head(ds), regione, fuel)
             THEN <<Float(Head(ds)[regione].dict[fuel].price)>>
             ELSE <<>>)

RECURSIVE PricesOf(_, _, _)
PricesOf(ds, regione, fuel) ==
    IF ds = <<>> THEN <<>>
    ELSE (IF Holds(Head(ds), regione, fuel)
          THEN <<Float(Head(ds)[regione].dict[fuel].price)>>
          ELSE <<>>) \o PricesOf(Tail(ds), regione, fuel)

(* float raises ValueError on the first price that is no number *)
Unparsable(ds) ==
    \E i \in 1..Len(ds) : \E regione \in RegionsOf(ds) : \E f \in 1..Len(Fuels) :
        /\ Holds(ds[i], regione, Fuels[f])
        /\ ~IsFloat(ds[i][regione].dict[Fuels[f]].price)

(* Only the regions that a snapshot holds under the fuel type *)
SeriesRegionsHolding(ds, fuel) ==
    {regione \in RegionsOf(ds) : \E i \in 1..Len(ds) : Holds(ds[i], regione, fuel)}

(* The keys of a fuel type's mapping: the same set for all four *)
SeriesRegions(ds, fuel) == RegionsOf(ds)

data_preparation_for_forecast(ds) ==
    IF Unparsable(ds)
    THEN [status |-> "ValueError", region2prices |-> EmptyDict]
    ELSE [status |-> "return",
          region2prices |->
              [fuel \in Range(Fuels) |->
                  [regione \in SeriesRegions(ds, fuel) |-> PricesOf(ds, regione, fuel)]]]

----------------------------------------------------------------------------
(* forecast *)

RECURSIVE Sum(_)
Sum(prices) == IF prices = <<>> THEN 0 ELSE Head(prices) + Sum(Tail(prices))

(* round(sum(prices) / len(prices), 2), in hundredths.  A mean that lies   *)
(* exactly between two hundredths is no binary float: the quotient is just *)
(* above or just below it, and round follows the quotient (tie).           *)
RoundedMean(prices, tie) ==
    LET s == Sum(prices)
        n == Len(prices)
        q == s \div n
        r == s % n
    IN  IF 2 * r < n THEN q
        ELSE IF 2 * r > n THEN q + 1
        ELSE IF tie = "up" THEN q + 1 ELSE q

(* What the numerical library and the float arithmetic may do on a call:   *)
(* the fit raises, or the one-step forecast is some number.                *)
FitOutcomes(prices) ==
    IF Len(prices) < MinArimaSamples
    THEN {[fit |-> "none", value |-> 0, tie |-> t] :
             t \in IF Len(prices) > 0 /\ 2 * (Sum(prices) % Len(prices)) = Len(prices)
                   THEN {"up", "down"} ELSE {"down"}}
    ELSE {[fit |-> "raises", value |-> 0, tie |-> "down"]}
         \cup {[fit |-> "ok", value |-> v, tie |-> "down"] :
                  v \in {prices[1], prices[Len(prices)] + 1}}

(* The mean estimator up to and including MinArimaSamples samples *)
forecastOffByOne(prices, lib) ==
    IF Len(prices) = 0
    THEN [status |-> "return", value |-> NoData, path |-> "sentinel"]
    ELSE IF Len(prices) <= MinArimaSamples
    THEN [status |-> "return", value |-> RoundedMean(prices, lib.tie), path |-> "mean"]
    ELSE IF lib.fit = "ok"
    THEN [status |-> "return", value |-> lib.value, path |-> "arima"]
    ELSE [status |-> "sys.exit", value |-> 0, path |-> "arima"]

(* A failed fit downgraded to the mean estimator *)
forecastFallsBack(prices, lib) ==
    IF Len(prices) = 0
    THEN [status |-> "return", value |-> NoData, path |-> "sentinel"]
    ELSE IF Len(prices) < MinArimaSamples
    THEN [status |-> "return", value |-> RoundedMean(prices, lib.tie), path |-> "mean"]
    ELSE IF lib.fit = "ok"
    THEN [status |-> "return", value |-> lib.value, path |-> "arima"]
    ELSE [status |-> "return", value |-> RoundedMean(prices, lib.tie), path |-> "mean"]

forecast(prices, lib) ==
    IF Len(prices) = 0
    THEN [status |-> "return", value |-> NoData, path |-> "sentinel"]
    ELSE IF Len(prices) < MinArimaSamples
    THEN [status |-> "return", value |-> RoundedMean(prices, lib.tie), path |-> "mean"]
    ELSE IF lib.fit = "ok"
    THEN [status |-> "return", value |-> lib.value, path |-> "arima"]
    ELSE [status |-> "sys.exit", value |-> 0, path |-> "arima"]

----------------------------------------------------------------------------
(* The store before the run: the snapshots that earlier daily runs of the  *)
(* job left, one per day, each built by data_preparation from that day's   *)
(* feed.                                                                   *)

HistoryPrice(d) == <<"1.80", "1.82", "1.81">>[(d % 3) + 1]

HistoryBatch(d) ==
    <<<<"Lazio", "Benzina", "Self", HistoryPrice(d)>>>>
    \o (IF d % 2 = 1 THEN <<<<"Puglia", "Benzina", "Servito", "1.70">>>> ELSE <<>>)

History(n) == [d \in 0..(n - 1) |-> data_preparation(HistoryBatch(d), d).json_data]

----------------------------------------------------------------------------
(* run_task *)

List(s) == [list |-> s]
IsList(v) == "list" \in DOMAIN v

Slice1(s) == IF s = <<>> THEN <<>> ELSE Tail(s)

Exit(code, condition) ==
    /\ pc' = "exited"
    /\ exitCode' = code
    /\ fatal' = condition

Init ==
    /\ \E n \in 0..MaxHistory :
          /\ fuel_data = History(n)
          /\ \E d \in {IF n = 0 THEN 0 ELSE n - 1, n} : \E t \in 0..(TicksPerDay - 1) :
                now = d * TicksPerDay + t
    /\ ticks = 0
    /\ fuel_data_forecast = EmptyDict
    /\ pc = "start"
    /\ exitCode = None
    /\ forecast_is_enabled = None
    /\ date_str = None
    /\ data = <<>>
    /\ json_data = None
    /\ current_date = None
    /\ tomorrow_date = None
    /\ docs = <<>>
    /\ prices_forecast = None
    /\ order = <<>>
    /\ fatal = "none"
    /\ writes = <<>>
    /\ calls = <<>>

(* The clock moves while the process runs *)
Tick ==
    /\ pc # "exited"
    /\ ticks < MaxTicks
    /\ now' = now + 1
    /\ ticks' = ticks + 1
    /\ UNCHANGED <<fuel_data, fuel_data_forecast, pc, exitCode, forecast_is_enabled,
                   date_str, data, json_data, current_date, tomorrow_date, docs,
                   prices_forecast, order, fatal, writes, calls>>

(* lines 154-164: the environment; a missing credential raises ValueError, *)
(* which nothing catches                                                   *)
Setup ==
    /\ pc = "start"
    /\ \E credentials_json \in BOOLEAN : \E enabled \in {"true", "false"} :
          IF credentials_json
          THEN /\ forecast_is_enabled' = enabled
               /\ pc' = "download"
               /\ UNCHANGED <<exitCode, fatal>>
          ELSE /\ Exit(1, "missing credential")
               /\ UNCHANGED forecast_is_enabled
    /\ UNCHANGED <<now, ticks, fuel_data, fuel_data_forecast, date_str, data, json_data,
                   current_date, tomorrow_date, docs, prices_forecast, order, writes, calls>>

(* download, ok being whether the request succeeds *)
download(ok, rows) ==
    IF ok THEN [status |-> "return", data |-> <<ColumnsRow>> \o rows]
    ELSE [status |-> "sys.exit", data |-> <<>>]

(* line 167 *)
Download ==
    /\ pc = "download"
    /\ \E ok \in BOOLEAN : \E rows \in Batches :
       \E d \in {now \div TicksPerDay, IF now < TicksPerDay THEN 0 ELSE (now \div TicksPerDay) - 1} :
          LET r == download(ok, rows)
          IN  IF r.status = "return"
              THEN /\ data' = r.data
                   /\ date_str' = d
                   /\ pc' = "prepare"
                   /\ fatal' = IF ok THEN fatal ELSE "feed retrieval error"
                   /\ UNCHANGED exitCode
              ELSE /\ Exit(1, "feed retrieval error")
                   /\ UNCHANGED <<data, date_str>>
    /\ UNCHANGED <<now, ticks, fuel_data, fuel_data_forecast, forecast_is_enabled, json_data,
                   current_date, tomorrow_date, docs, prices_forecast, order, writes, calls>>

(* line 168 *)
Prepare ==
    /\ pc = "prepare"
    /\ LET r == data_preparation(Slice1(data), date_str)
       IN  CASE r.status = "return" ->
                  /\ json_data' = r.json_data
                  /\ pc' = "save"
                  /\ UNCHANGED <<exitCode, fatal>>
             [] r.status = "sys.exit" ->
                  /\ Exit(1, "malformed row")
                  /\ UNCHANGED json_data
             [] r.status = "TypeError" ->
                  /\ Exit(1, "TypeError")
                  /\ UNCHANGED json_data
    /\ UNCHANGED <<now, ticks, fuel_data, fuel_data_forecast, forecast_is_enabled, date_str,
                   data, current_date, tomorrow_date, docs, prices_forecast, order, writes, calls>>

(* lines 169 and 173 *)
SaveSnapshot ==
    /\ pc = "save"
    /\ \E ok \in BOOLEAN :
          LET r == save_on_firestore(json_data, fuel_data, now, ok)
          IN  /\ fuel_data' = r.collection
              /\ writes' = IF ok
                           THEN Append(writes, [collection |-> "fuel_data", id |-> r.id,
                                                doc |-> json_data])
                           ELSE writes
              /\ fatal' = IF ok THEN fatal ELSE "store write error"
              /\ IF r.status = "return"
                 THEN IF forecast_is_enabled = "true"
                      THEN pc' = "now1" /\ UNCHANGED exitCode
                      ELSE pc' = "exited" /\ exitCode' = 0
                 ELSE pc' = "exited" /\ exitCode' = 1
    /\ UNCHANGED <<now, ticks, fuel_data_forecast, forecast_is_enabled, date_str, data,
                   json_data, current_date, tomorrow_date, docs, prices_forecast, order, calls>>

(* line 175 *)
ReadCurrentDate ==
    /\ pc = "now1"
    /\ current_date' = strftime(now)
    /\ pc' = "now2"
    /\ UNCHANGED <<now, ticks, fuel_data, fuel_data_forecast, exitCode, forecast_is_enabled,
                   date_str, data, json_data, tomorrow_date, docs, prices_forecast,
                   order, fatal, writes, calls>>

(* line 176 *)
ReadTomorrowDate ==
    /\ pc = "now2"
    /\ tomorrow_date' = strftime(now + OneDay)
    /\ pc' = "get"
    /\ UNCHANGED <<now, ticks, fuel_data, fuel_data_forecast, exitCode, forecast_is_enabled,
                   date_str, data, json_data, current_date, docs, prices_forecast,
                   order, fatal, writes, calls>>

(* line 178 *)
GetFromFirestore ==
    /\ pc = "get"
    /\ \E ok \in BOOLEAN :
          LET r == get_from_firestore(num_of_entries, fuel_data, ok)
          IN  /\ docs' = r.docs
              /\ fatal' = IF ok THEN fatal ELSE "store read error"
              /\ IF r.status = "return"
                 THEN pc' = "assemble" /\ UNCHANGED exitCode
                 ELSE pc' = "exited" /\ exitCode' = 1
    /\ UNCHANGED <<now, ticks, fuel_data, fuel_data_forecast, forecast_is_enabled, date_str,
                   data, json_data, current_date, tomorrow_date, prices_forecast,
                   order, writes, calls>>

(* The orders in which a set of strings may iterate *)
Orders(S) == {o \in [1..Cardinality(S) -> S] : Range(o) = S}

(* line 179.  The four comprehensions iterate the same set expression over *)
(* the same docs, in one order.                                            *)
Assemble ==
    /\ pc = "assemble"
    /\ LET r == data_preparation_for_forecast(docs)
       IN  IF r.status = "return"
           THEN /\ prices_forecast' =
                      [fuel \in DOMAIN r.region2prices |->
                          [regione \in DOMAIN r.region2prices[fuel] |->
                              List(r.region2prices[fuel][regione])]]
                /\ order' \in Orders(RegionsOf(docs))
                /\ pc' = "loop"
                /\ UNCHANGED <<exitCode, fatal>>
           ELSE /\ Exit(1, "non-numeric stored price")
                /\ UNCHANGED <<prices_forecast, order>>
    /\ UNCHANGED <<now, ticks, fuel_data, fuel_data_forecast, forecast_is_enabled, date_str,
                   data, json_data, current_date, tomorrow_date, docs, writes, calls>>

(* The series of a fuel type that the loop has not reached yet *)
Pending(fuel) == {regione \in DOMAIN prices_forecast[fuel] :
                     IsList(prices_forecast[fuel][regione])}

(* The fuel type the outer loop is at: the first, in the dict's order, with *)
(* a series left                                                           *)
AtFuel == Fuels[CHOOSE f \in 1..Len(Fuels) :
                    /\ Pending(Fuels[f]) # {}
                    /\ \A g \in 1..(f - 1) : Pending(Fuels[g]) = {}]

LoopDone == \A f \in 1..Len(Fuels) : Pending(Fuels[f]) = {}

(* The region the inner loop is at: the first, in the set's order, left   *)
AtRegion == order[CHOOSE i \in 1..Len(order) :
                     /\ order[i] \in Pending(AtFuel)
                     /\ \A j \in 1..(i - 1) : order[j] \notin Pending(AtFuel)]

(* lines 181-186, one iteration of the inner loop *)
ForecastStep ==
    /\ pc = "loop"
    /\ ~LoopDone
    /\ LET regione == AtRegion
           prices == prices_forecast[AtFuel][regione].list
       IN  \E lib \in FitOutcomes(prices) :
           LET r == forecast(prices, lib)
           IN  /\ calls' = Append(calls, [fuel |-> AtFuel, region |-> regione,
                                         prices |-> prices, fit |-> lib.fit,
                                         path |-> r.path, status |-> r.status,
                                         value |-> r.value])
               /\ fatal' = IF lib.fit = "raises" THEN "model-fit failure" ELSE fatal
               /\ IF r.status = "return"
                  THEN /\ prices_forecast' =
                             [prices_forecast EXCEPT ![AtFuel][regione] =
                                 [prices |-> prices, forecast |-> r.value]]
                       /\ UNCHANGED <<pc, exitCode>>
                  ELSE /\ pc' = "exited"
                       /\ exitCode' = 1
                       /\ UNCHANGED prices_forecast
    /\ UNCHANGED <<now, ticks, fuel_data, fuel_data_forecast, forecast_is_enabled, date_str,
                   data, json_data, current_date, tomorrow_date, docs, order, writes>>

(* lines 188-191, and the end of the script *)
SaveForecast ==
    /\ pc = "loop"
    /\ LoopDone
    /\ LET record == Put(Put(prices_forecast, "current_date", current_date),
                         "tomorrow_date", tomorrow_date)
       IN  /\ prices_forecast' = record
           /\ \E ok \in BOOLEAN :
                 LET r == save_on_firestore(record, fuel_data_forecast, now, ok)
                 IN  /\ fuel_data_forecast' = r.collection
                     /\ writes' = IF ok
                                  THEN Append(writes, [collection |-> "fuel_data_forecast",
                                                       id |-> r.id, doc |-> record])
                                  ELSE writes
                     /\ fatal' = IF ok THEN fatal ELSE "store write error"
                     /\ pc' = "exited"
                     /\ exitCode' = IF r.status = "return" THEN 0 ELSE 1
    /\ UNCHANGED <<now, ticks, fuel_data, forecast_is_enabled, date_str, data, json_data,
                   current_date, tomorrow_date, docs, order, calls>>

Next ==
    \/ Tick
    \/ Setup
    \/ Download
    \/ Prepare
    \/ SaveSnapshot
    \/ ReadCurrentDate
    \/ ReadTomorrowDate
    \/ GetFromFirestore
    \/ Assemble
    \/ ForecastStep
    \/ SaveForecast

Spec == Init /\ [][Next]_vars

----------------------------------------------------------------------------
(* What the claims speak of *)

(* The row batch given to data_preparation *)
BatchRows == Slice1(data)

(* data_preparation has returned a snapshot *)
SnapshotBuilt == json_data # None

(* The writes of this run to a collection *)
WritesTo(collection) == {i \in 1..Len(writes) : writes[i].collection = collection}

(* data_preparation_for_forecast has returned *)
Assembled == prices_forecast # None

SeriesOf(entry) == IF IsList(entry) THEN entry.list ELSE entry.prices

(* The snapshots of the window that hold a price for a pair, by position *)
Holders(fuel, regione) ==
    {i \in 1..Len(docs) :
        /\ regione \in DOMAIN docs[i]
        /\ "dict" \in DOMAIN docs[i][regione]
        /\ fuel \in DOMAIN docs[i][regione].dict}

Nth(S, k) == CHOOSE i \in S : Cardinality({j \in S : j < i}) = k - 1

----------------------------------------------------------------------------
(* C1: when a batch accepted by data_preparation has several rows for one  *)
(* (region, fuel type) pair, the snapshot holds for the pair the price and *)
(* the service type of the first of them.                                  *)
C1_FirstObservedWins ==
    SnapshotBuilt =>
        \A i \in 1..Len(BatchRows) :
            LET regione == Lower(BatchRows[i][1])
                fuel    == Lower(BatchRows[i][2])
                first   == CHOOSE j \in 1..i :
                              /\ Lower(BatchRows[j][1]) = regione
                              /\ Lower(BatchRows[j][2]) = fuel
                              /\ \A k \in 1..(j - 1) :
                                    ~(Lower(BatchRows[k][1]) = regione /\ Lower(BatchRows[k][2]) = fuel)
            IN  (regione \in DOMAIN json_data /\ IsDict(json_data[regione])) =>
                    /\ json_data[regione].dict[fuel].price = Lower(BatchRows[first][4])
                    /\ json_data[regione].dict[fuel].type = Lower(BatchRows[first][3])

(* C2: a batch with a row of fewer or of more than four fields ends the    *)
(* run fatally: no snapshot is returned and none is saved.                 *)
C2_MalformedRowAborts ==
    (pc \notin {"start", "download", "prepare"}
        /\ \E i \in 1..Len(BatchRows) : Len(BatchRows[i]) # 4) =>
        /\ pc = "exited"
        /\ exitCode = 1
        /\ ~SnapshotBuilt
        /\ WritesTo("fuel_data") = {}

(* C9: the snapshot of a batch whose rows all have four fields has a date  *)
(* entry holding the header's date, and lower-cased keys and service types *)
C9_SnapshotShape ==
    (SnapshotBuilt /\ \A i \in 1..Len(BatchRows) : Len(BatchRows[i]) = 4) =>
        /\ "date" \in DOMAIN json_data
        /\ json_data["date"] = Str(date_str)
        /\ \A regione \in DOMAIN json_data :
              /\ IsLower(regione)
              /\ IsDict(json_data[regione]) =>
                    \A fuel \in DOMAIN json_data[regione].dict :
                        /\ IsLower(fuel)
                        /\ IsLower(json_data[regione].dict[fuel].type)

(* C8: in every forecast record written, tomorrow_date is current_date     *)
(* plus one calendar day.                                                  *)
C8_TomorrowIsNextDay ==
    \A i \in WritesTo("fuel_data_forecast") :
        writes[i].doc["tomorrow_date"].str = writes[i].doc["current_date"].str + 1

(* C10: every document a run writes is stored under the run's execution    *)
(* date, the date its forecast record carries as current_date.             *)
C10_WritesUnderExecutionDate ==
    /\ \A i \in 1..Len(writes) : \A j \in 1..Len(writes) : writes[i].id = writes[j].id
    /\ \A i \in WritesTo("fuel_data_forecast") :
          \A j \in 1..Len(writes) : writes[j].id = writes[i].doc["current_date"].str

----------------------------------------------------------------------------
(* C3, as claimed: a fuel type's mapping has a region key only if a        *)
(* snapshot of the window holds a price for the pair; no value is empty.   *)
C3_NoEmptySeries ==
    Assembled =>
        \A f \in 1..Len(Fuels) : \A regione \in DOMAIN prices_forecast[Fuels[f]] :
            /\ Holders(Fuels[f], regione) # {}
            /\ SeriesOf(prices_forecast[Fuels[f]][regione]) # <<>>

(* C3, as the code has it: every fuel type's mapping has a key for every   *)
(* region that is a dict in some snapshot of the window, under whatever    *)
(* fuel type, and the region's series is empty exactly when no snapshot    *)
(* holds a price for the pair.                                             *)
C3_EveryRegionUnderEveryFuel ==
    Assembled =>
        \A f \in 1..Len(Fuels) :
            /\ DOMAIN prices_forecast[Fuels[f]] =
                  {regione \in UNION {DOMAIN docs[i] : i \in 1..Len(docs)} :
                      \E i \in 1..Len(docs) :
                          regione \in DOMAIN docs[i] /\ "dict" \in DOMAIN docs[i][regione]}
            /\ \A regione \in DOMAIN prices_forecast[Fuels[f]] :
                  (SeriesOf(prices_forecast[Fuels[f]][regione]) = <<>>)
                      <=> (Holders(Fuels[f], regione) = {})

(* A region with prices under one fuel type and an empty series under      *)
(* another                                                                 *)
C3_Witness ==
    /\ Assembled
    /\ \E regione \in DOMAIN prices_forecast["gpl"] :
          /\ SeriesOf(prices_forecast["gpl"][regione]) = <<>>
          /\ Len(SeriesOf(prices_forecast["benzina"][regione])) > 1

(* C4: the series of a pair is the prices of the pair in the snapshots that *)
(* hold it, in the snapshots' order, one per such snapshot; forecast is     *)
(* called with that sequence and the forecast record stores it.            *)
ExpectedSeries(fuel, regione, s) ==
    /\ Len(s) = Cardinality(Holders(fuel, regione))
    /\ \A k \in 1..Len(s) :
          s[k] = FloatTable[docs[Nth(Holders(fuel, regione), k)][regione].dict[fuel].price]

C4_SeriesOrderAndContent ==
    /\ Assembled =>
          \A f \in 1..Len(Fuels) : \A regione \in DOMAIN prices_forecast[Fuels[f]] :
              ExpectedSeries(Fuels[f], regione, SeriesOf(prices_forecast[Fuels[f]][regione]))
    /\ \A c \in 1..Len(calls) :
          ExpectedSeries(calls[c].fuel, calls[c].region, calls[c].prices)
    /\ \A i \in WritesTo("fuel_data_forecast") :
          \A f \in 1..Len(Fuels) : \A regione \in DOMAIN writes[i].doc[Fuels[f]] :
              ExpectedSeries(Fuels[f], regione, writes[i].doc[Fuels[f]][regione].prices)

(* A forecast record written with a series of differing prices and a       *)
(* series that skips snapshots of the window                               *)
C4_Witness ==
    \E i \in WritesTo("fuel_data_forecast") :
        /\ \E regione \in DOMAIN writes[i].doc["benzina"] :
              LET s == writes[i].doc["benzina"][regione].prices
              IN  Len(s) > 2 /\ s[1] # s[2] /\ s[2] # s[3]
        /\ \E regione \in DOMAIN writes[i].doc["benzina"] :
              LET s == writes[i].doc["benzina"][regione].prices
              IN  0 < Len(s) /\ Len(s) < Len(docs)

(* C5: forecast returns -1 for the empty sequence; for 1 to 4 samples the  *)
(* mean rounded to a hundredth, without the autoregressive model; for 5 or *)
(* more samples it takes the autoregressive path, never the mean.          *)
C5_DecisionPolicy ==
    \A c \in 1..Len(calls) :
        LET n == Len(calls[c].prices)
            s == Sum(calls[c].prices)
            v == calls[c].value
        IN  /\ n = 0 => /\ calls[c].status = "return"
                        /\ calls[c].path = "sentinel"
                        /\ v = -1
            /\ (0 < n /\ n < 5) =>
                        /\ calls[c].status = "return"
                        /\ calls[c].path = "mean"
                        /\ 2 * (n * v - s) <= n
                        /\ 2 * (s - n * v) <= n
            /\ n >= 5 => /\ calls[c].path = "arima"
                         /\ calls[c].fit # "none"

(* The three branches taken in one run *)
C5_Witness ==
    /\ \E c \in 1..Len(calls) : Len(calls[c].prices) = 0
    /\ \E c \in 1..Len(calls) : Len(calls[c].prices) \in 1..4
    /\ \E c \in 1..Len(calls) : Len(calls[c].prices) >= 5 /\ calls[c].status = "return"

(* C6: a failed fit ends the run there: forecast returns nothing for the   *)
(* sequence, no sequence is forecast after it, the sequence is not tried   *)
(* again, and no forecast record is written.                               *)
C6_FitFailureIsFatal ==
    \A c \in 1..Len(calls) :
        calls[c].fit = "raises" =>
            /\ c = Len(calls)
            /\ calls[c].status = "sys.exit"
            /\ pc = "exited"
            /\ exitCode = 1
            /\ IsList(prices_forecast[calls[c].fuel][calls[c].region])
            /\ \A b \in 1..(c - 1) :
                  ~(calls[b].fuel = calls[c].fuel /\ calls[b].region = calls[c].region)
            /\ WritesTo("fuel_data_forecast") = {}

(* A fit failed after other series were forecast and with series left      *)
C6_Witness ==
    /\ Len(calls) > 1
    /\ calls[Len(calls)].fit = "raises"
    /\ \E f \in 1..Len(Fuels) : Pending(Fuels[f]) \ {calls[Len(calls)].region} # {}

====
